---- MODULE Spec2Model ----
(***************************************************************************)
(* A model of dazel.py: a launcher that keeps a docker container running   *)
(* and forwards bazel commands into it.                                    *)
(*                                                                         *)
(* Spec      one launcher process invoked again and again, plus the        *)
(*           environment (somebody touches the Dockerfile, the container   *)
(*           exits).                                                       *)
(* SpecConc  two launcher processes running main() concurrently.           *)
(* SpecCfg   DockerInstance.from_config() and the constructor.             *)
(* SpecArgs  DockerInstance.send_command()'s command line as /bin/sh       *)
(*           splits it into words.                                         *)
(***************************************************************************)
EXTENDS Integers, Sequences, FiniteSets, TLC

VARIABLES
    di,          \* the DockerInstance fields main() works with
    marker,      \* the file di.dazel_run_file
    dockerfile,  \* the file di.dockerfile
    image,       \* TRUE when repository/image_name is in `docker images`
    container,   \* the docker container named di.instance_name
    clock,       \* file-system time
    active,      \* the launcher processes of this run
    pc,          \* where each process is in main()/start()
    rc,          \* the local rc of main()/start()
    log,         \* the commands the current invocation has issued so far
    seen,        \* what the staleness check of the current invocation read
    ret,         \* the value main() returned
    status,      \* the exit status the caller of the process sees
    marker0,     \* the marker file as it was when the invocation began
    startFailed, \* history: start() returned non-zero in the previous (prev) or
                 \* the current (cur) invocation of the process
    envChanged,  \* history: somebody else changed a file or the container during
                 \* the previous (prev) or the current (cur) invocation
    lost,        \* history: another process stopped/removed p's container
    environ,     \* os.environ, the DAZEL_ variables
    dazelrc,     \* the .dazelrc file: where it is, what it assigns
    hostfs,      \* the host directories the constructor looks at
    ctor,        \* the arguments from_config() hands to the constructor
    inst,        \* the constructed DockerInstance, or the exception raised
    argv,        \* sys.argv[1:]
    command,     \* the command line send_command() hands to os.system
    received     \* the words the in-container command receives

vars == <<di, marker, dockerfile, image, container, clock, active, pc, rc, log,
          seen, ret, status, marker0, startFailed, envChanged, lost,
          environ, dazelrc, hostfs, ctor, inst, argv, command, received>>

worldVars == <<marker, dockerfile, image, container, clock>>
histVars  == <<startFailed, envChanged, lost>>
procVars  == <<pc, rc, log, seen, ret, status, marker0>>
cfgVars   == <<environ, dazelrc, hostfs, ctor, inst>>
argVars   == <<argv, command, received>>

-----------------------------------------------------------------------------
(* Bounds *)

MaxCode == 2    \* external commands exit with a code in 0..MaxCode
MaxTime == 4    \* invocations begin and files are touched while clock < MaxTime
MaxArgs == 2    \* sys.argv[1:] has at most MaxArgs arguments
MaxArgLen == 2  \* of at most MaxArgLen characters each
MaxSet == 2     \* os.environ and .dazelrc each set at most MaxSet names

-----------------------------------------------------------------------------
(* Program constants *)

DAZEL_RUN_FILE == ".dazel_run"
DEFAULT_INSTANCE_NAME == "dazel"
DEFAULT_IMAGE_NAME == "dazel"
DEFAULT_LOCAL_DOCKERFILE == "Dockerfile.dazel"
DEFAULT_REMOTE_RPOSITORY == "dazel"
DEFAULT_DIRECTORY == "cwd"
DEFAULT_COMMAND == "/bazel/output/bazel"
DAZEL_RC_FILE == ".dazelrc"
DEFAULT_VOLUMES == <<>>
DEFAULT_BAZEL_USER_OUTPUT_ROOT == "home/.cache/bazel"

Procs == {1, 2}
Codes == 0 .. MaxCode
NonZero == Codes \ {0}

\* os.system() returns the wait status of the shell: the exit code is the
\* high byte of a 16-bit value.
WaitStatus(e) == e * 256

\* sys.exit(n) ends the process with the low 8 bits of n.
ExitStatus(n) == n % 256

Event(c, r) == [cmd |-> c, rc |-> r]

NoSeen == [marker |-> "unread", running |-> "unread", df |-> "unread",
           cmp |-> "unread", build |-> "unread"]

Bool2Str(b) == IF b THEN "yes" ELSE "no"

-----------------------------------------------------------------------------
(* Files and the container runtime *)

NoFile == [exists |-> FALSE, ctime |-> 0, content |-> ""]
File(t, c) == [exists |-> TRUE, ctime |-> t, content |-> c]

NoContainer == [state |-> "absent", owner |-> 0]

\* The process whose container another process p stops or removes.
Victims(p) == IF container.owner \in Procs \ {p} THEN {container.owner} ELSE {}

Log(p, c, r) == [log EXCEPT ![p] = Append(@, Event(c, r))]

\* Mutant: main() ignores what start() returned and forwards the command.
StartFailsMutant(p, r) ==
    /\ ret' = [ret EXCEPT ![p] = r]
    /\ pc' = [pc EXCEPT ![p] = "send"]
    /\ startFailed' = [startFailed EXCEPT ![p].cur = TRUE]
    /\ UNCHANGED envChanged

\* `if rc: return rc` in start() followed by `if rc: return rc` in main().
StartFails(p, r) ==
    /\ ret' = [ret EXCEPT ![p] = r]
    /\ pc' = [pc EXCEPT ![p] = "exit"]
    /\ startFailed' = [startFailed EXCEPT ![p].cur = TRUE]
    /\ UNCHANGED envChanged

-----------------------------------------------------------------------------
(* main() *)

\* A new process runs the script.
Invoke(p) ==
    /\ pc[p] \in {"idle", "exited"}
    /\ clock < MaxTime
    /\ pc' = [pc EXCEPT ![p] = "chk_marker"]
    /\ rc' = [rc EXCEPT ![p] = 0]
    /\ log' = [log EXCEPT ![p] = <<>>]
    /\ seen' = [seen EXCEPT ![p] = NoSeen]
    /\ ret' = [ret EXCEPT ![p] = 0]
    /\ status' = [status EXCEPT ![p] = 0]
    /\ marker0' = [marker0 EXCEPT ![p] = marker]
    /\ envChanged' = [envChanged EXCEPT ![p] = [prev |-> @.cur, cur |-> FALSE]]
    /\ startFailed' = [startFailed EXCEPT ![p] = [prev |-> @.cur, cur |-> FALSE]]
    /\ UNCHANGED <<di, worldVars, active, lost, cfgVars, argVars>>

\* not os.path.exists(di.dazel_run_file)
MainCheckMarker(p) ==
    /\ pc[p] = "chk_marker"
    /\ seen' = [seen EXCEPT ![p].marker = Bool2Str(marker.exists)]
    /\ pc' = [pc EXCEPT ![p] = IF ~marker.exists THEN "start" ELSE "chk_running"]
    /\ UNCHANGED <<di, worldVars, active, histVars, cfgVars, argVars,
                   rc, log, ret, status, marker0>>

\* The exit code of `docker ps | grep <instance_name>`.
PsGrep == IF container.state = "running" THEN 0 ELSE 1

\* not di.is_running()
MainIsRunning(p) ==
    /\ pc[p] = "chk_running"
    /\ LET r == WaitStatus(PsGrep) IN
         /\ log' = Log(p, "ps", r)
         /\ seen' = [seen EXCEPT ![p].running = Bool2Str(r = 0)]
         /\ pc' = [pc EXCEPT ![p] = IF ~(r = 0) THEN "start" ELSE "chk_df"]
    /\ UNCHANGED <<di, worldVars, active, histVars, cfgVars, argVars,
                   rc, ret, status, marker0>>

\* Mutant: the comparison the wrong way round.
NewerMutant(a, b) == a < b

\* os.path.getctime(di.dockerfile) > os.path.getctime(di.dazel_run_file)
Newer(a, b) == a > b

\* os.path.exists(di.dockerfile) and getctime(dockerfile) > getctime(run file)
MainCheckDockerfile(p) ==
    /\ pc[p] = "chk_df"
    /\ LET stale == dockerfile.exists /\ Newer(dockerfile.ctime, marker.ctime) IN
         /\ seen' = [seen EXCEPT ![p].df = Bool2Str(dockerfile.exists),
                                 ![p].cmp = IF ~dockerfile.exists THEN "unread"
                                            ELSE IF dockerfile.ctime > marker.ctime THEN "newer"
                                            ELSE IF dockerfile.ctime < marker.ctime THEN "older"
                                            ELSE "equal"]
         /\ pc' = [pc EXCEPT ![p] = IF stale THEN "start" ELSE "send"]
    /\ UNCHANGED <<di, worldVars, active, histVars, cfgVars, argVars,
                   rc, log, ret, status, marker0>>

-----------------------------------------------------------------------------
(* DockerInstance.start() *)

\* Mutant: start() touches the run file first.
StartCheckDockerfileMutant(p) ==
    /\ pc[p] = "start"
    /\ log' = Log(p, "start", 0)
    /\ seen' = [seen EXCEPT ![p].build = Bool2Str(dockerfile.exists)]
    /\ pc' = [pc EXCEPT ![p] = IF dockerfile.exists THEN "build" ELSE "pull"]
    /\ marker' = File(clock, di.instance_name \o "\n")
    /\ clock' = clock + 1
    /\ UNCHANGED <<di, dockerfile, image, container, active, histVars, cfgVars,
                   argVars, rc, ret, status, marker0>>

\* if os.path.exists(self.dockerfile): ... else: ...
StartCheckDockerfile(p) ==
    /\ pc[p] = "start"
    /\ log' = Log(p, "start", 0)
    /\ seen' = [seen EXCEPT ![p].build = Bool2Str(dockerfile.exists)]
    /\ pc' = [pc EXCEPT ![p] = IF dockerfile.exists THEN "build" ELSE "pull"]
    /\ UNCHANGED <<di, worldVars, active, histVars, cfgVars, argVars,
                   rc, ret, status, marker0>>

\* rc = self._build(); if rc: return rc
_build(p) ==
    /\ pc[p] = "build"
    /\ IF ~dockerfile.exists
       THEN /\ pc' = [pc EXCEPT ![p] = "raise"]
            /\ UNCHANGED <<rc, log, ret, image, histVars>>
       ELSE \E e \in Codes :
              /\ rc' = [rc EXCEPT ![p] = WaitStatus(e)]
              /\ log' = Log(p, "build", WaitStatus(e))
              /\ image' = (image \/ e = 0)
              /\ IF WaitStatus(e) # 0
                 THEN StartFails(p, WaitStatus(e)) /\ UNCHANGED lost
                 ELSE /\ pc' = [pc EXCEPT ![p] = "stop"]
                      /\ UNCHANGED <<ret, histVars>>
    /\ UNCHANGED <<di, marker, dockerfile, container, clock, active,
                   cfgVars, argVars, seen, status, marker0>>

\* rc = self._pull()
_pull(p) ==
    /\ pc[p] = "pull"
    /\ IF di.repository = ""
       THEN /\ pc' = [pc EXCEPT ![p] = "raise"]
            /\ UNCHANGED <<rc, log, image>>
       ELSE \E e \in Codes :
              /\ rc' = [rc EXCEPT ![p] = WaitStatus(e)]
              /\ log' = Log(p, "pull", WaitStatus(e))
              /\ image' = (image \/ e = 0)
              /\ pc' = [pc EXCEPT ![p] = IF WaitStatus(e) # 0 THEN "image_exists"
                                         ELSE "stop"]
    /\ UNCHANGED <<di, marker, dockerfile, container, clock, active, histVars,
                   cfgVars, argVars, seen, ret, status, marker0>>

\* Mutant: the result of grep read the wrong way round.
ImagesGrepMutant == IF image THEN 1 ELSE 0

\* The exit code of `docker images | grep <repository>/<image_name>`.
ImagesGrep == IF image THEN 0 ELSE 1

\* if rc and self._image_exists(): rc = 0 ; if rc: return rc
_image_exists(p) ==
    /\ pc[p] = "image_exists"
    /\ LET r == WaitStatus(ImagesGrep) IN
         /\ log' = Log(p, "images", r)
         /\ IF r = 0
            THEN /\ rc' = [rc EXCEPT ![p] = 0]
                 /\ pc' = [pc EXCEPT ![p] = "stop"]
                 /\ UNCHANGED <<ret, histVars>>
            ELSE /\ StartFails(p, rc[p])
                 /\ UNCHANGED <<rc, lost>>
    /\ UNCHANGED <<di, worldVars, active, cfgVars, argVars, seen, status, marker0>>

\* Mutant: provisioning waits until no other process is provisioning.
DockerStopMutant(p) ==
    /\ pc[p] = "stop"
    /\ \A q \in active \ {p} : pc[q] \notin {"rm", "run", "write_marker"}
    /\ \E ok \in BOOLEAN :
         /\ IF ok /\ container.state = "running"
            THEN /\ container' = [container EXCEPT !.state = "stopped"]
                 /\ lost' = [q \in Procs |-> lost[q] \/ q \in Victims(p)]
            ELSE UNCHANGED <<container, lost>>
         /\ log' = Log(p, "stop", IF ok /\ container.state = "running" THEN 0 ELSE 1)
    /\ pc' = [pc EXCEPT ![p] = "rm"]
    /\ UNCHANGED <<di, marker, dockerfile, image, clock, active, startFailed,
                   envChanged, cfgVars, argVars, rc, seen, ret, status, marker0>>

\* docker stop <instance_name> >& /dev/null ;   (its result is ignored)
DockerStop(p) ==
    /\ pc[p] = "stop"
    /\ \E ok \in BOOLEAN :
         /\ IF ok /\ container.state = "running"
            THEN /\ container' = [container EXCEPT !.state = "stopped"]
                 /\ lost' = [q \in Procs |-> lost[q] \/ q \in Victims(p)]
            ELSE UNCHANGED <<container, lost>>
         /\ log' = Log(p, "stop", IF ok /\ container.state = "running" THEN 0 ELSE 1)
    /\ pc' = [pc EXCEPT ![p] = "rm"]
    /\ UNCHANGED <<di, marker, dockerfile, image, clock, active, startFailed,
                   envChanged, cfgVars, argVars, rc, seen, ret, status, marker0>>

\* docker rm <instance_name> >& /dev/null ;     (its result is ignored)
DockerRm(p) ==
    /\ pc[p] = "rm"
    /\ \E ok \in BOOLEAN :
         /\ IF ok /\ container.state = "stopped"
            THEN /\ container' = NoContainer
                 /\ lost' = [q \in Procs |-> lost[q] \/ q \in Victims(p)]
            ELSE UNCHANGED <<container, lost>>
         /\ log' = Log(p, "rm", IF ok /\ container.state = "stopped" THEN 0 ELSE 1)
    /\ pc' = [pc EXCEPT ![p] = "run"]
    /\ UNCHANGED <<di, marker, dockerfile, image, clock, active, startFailed,
                   envChanged, cfgVars, argVars, rc, seen, ret, status, marker0>>

\* The exit codes `docker run -id --name=<instance_name> ...` can end with:
\* the name must be free, and even then the run can fail.
RunCodes == IF container.state = "absent" THEN Codes ELSE NonZero

\* Mutant: the result of the run is not checked before the run file is written.
DockerRunMutant(p) ==
    /\ pc[p] = "run"
    /\ \E e \in RunCodes :
         /\ rc' = [rc EXCEPT ![p] = WaitStatus(e)]
         /\ log' = Log(p, "run", WaitStatus(e))
         /\ pc' = [pc EXCEPT ![p] = "write_marker"]
         /\ IF WaitStatus(e) # 0
            THEN UNCHANGED <<container, lost>>
            ELSE /\ container' = [state |-> "running", owner |-> p]
                 /\ lost' = [lost EXCEPT ![p] = FALSE]
         /\ UNCHANGED <<ret, startFailed, envChanged>>
    /\ UNCHANGED <<di, marker, dockerfile, image, clock, active,
                   cfgVars, argVars, seen, status, marker0>>

\* docker run -id --name=... ; rc = os.system(command) ; if rc: return rc
DockerRun(p) ==
    /\ pc[p] = "run"
    /\ \E e \in RunCodes :
         /\ rc' = [rc EXCEPT ![p] = WaitStatus(e)]
         /\ log' = Log(p, "run", WaitStatus(e))
         /\ IF WaitStatus(e) # 0
            THEN /\ StartFails(p, WaitStatus(e))
                 /\ UNCHANGED <<container, lost>>
            ELSE /\ container' = [state |-> "running", owner |-> p]
                 /\ pc' = [pc EXCEPT ![p] = "write_marker"]
                 /\ lost' = [lost EXCEPT ![p] = FALSE]
                 /\ UNCHANGED <<ret, startFailed, envChanged>>
    /\ UNCHANGED <<di, marker, dockerfile, image, clock, active,
                   cfgVars, argVars, seen, status, marker0>>

\* file(self.dazel_run_file, "w").write(self.instance_name + "\n")
WriteMarker(p) ==
    /\ pc[p] = "write_marker"
    /\ marker' = File(clock, di.instance_name \o "\n")
    /\ clock' = clock + 1
    /\ log' = Log(p, "marker", 0)
    /\ pc' = [pc EXCEPT ![p] = "send"]
    /\ UNCHANGED <<di, dockerfile, image, container, active, histVars,
                   cfgVars, argVars, rc, seen, ret, status, marker0>>

-----------------------------------------------------------------------------
(* DockerInstance.send_command() and the end of the process *)

\* The exit codes `docker exec -it <instance_name> ...` can end with: that of
\* the command in the container, or docker's own error when there is no
\* running container of that name.
ExecCodes == IF container.state = "running" THEN Codes ELSE NonZero

\* return di.send_command(sys.argv[1:])
send_command(p) ==
    /\ pc[p] = "send"
    /\ \E e \in ExecCodes :
         /\ log' = Log(p, "exec", WaitStatus(e))
         /\ ret' = [ret EXCEPT ![p] = WaitStatus(e)]
    /\ pc' = [pc EXCEPT ![p] = "exit"]
    /\ UNCHANGED <<di, worldVars, active, histVars, cfgVars, argVars,
                   rc, seen, status, marker0>>

\* sys.exit(main()); an uncaught exception ends the interpreter with status 1.
Exit(p) ==
    /\ pc[p] \in {"exit", "raise"}
    /\ status' = [status EXCEPT ![p] = IF pc[p] = "raise" THEN 1
                                      ELSE ExitStatus(ret[p])]
    /\ pc' = [pc EXCEPT ![p] = "exited"]
    /\ UNCHANGED <<di, worldVars, active, histVars, cfgVars, argVars,
                   rc, log, seen, ret, marker0>>

-----------------------------------------------------------------------------
(* The environment: the user and the container itself *)

AllChanged == [q \in Procs |-> [envChanged[q] EXCEPT !.cur = TRUE]]

\* Somebody writes the Dockerfile.
EnvTouchDockerfile ==
    /\ clock < MaxTime
    /\ dockerfile' = File(clock, "")
    /\ clock' = clock + 1
    /\ envChanged' = AllChanged
    /\ UNCHANGED <<di, marker, image, container, active, startFailed, lost,
                   procVars, cfgVars, argVars>>

\* The container's shell ends, or somebody stops the container.
EnvContainerExit ==
    /\ container.state = "running"
    /\ container' = [container EXCEPT !.state = "stopped"]
    /\ envChanged' = AllChanged
    /\ UNCHANGED <<di, marker, dockerfile, image, clock, active, startFailed,
                   lost, procVars, cfgVars, argVars>>

\* Somebody starts the stopped container by hand.
EnvContainerStart ==
    /\ container.state = "stopped"
    /\ container' = [container EXCEPT !.state = "running"]
    /\ envChanged' = AllChanged
    /\ UNCHANGED <<di, marker, dockerfile, image, clock, active, startFailed,
                   lost, procVars, cfgVars, argVars>>

-----------------------------------------------------------------------------
(* The specifications of main() *)

InitTimes == {0, 1}

Instance(repo) ==
    [instance_name |-> DEFAULT_INSTANCE_NAME,
     image_name |-> DEFAULT_IMAGE_NAME,
     dockerfile |-> DEFAULT_LOCAL_DOCKERFILE,
     repository |-> repo,
     command |-> DEFAULT_COMMAND,
     bazel_user_output_root |-> DEFAULT_BAZEL_USER_OUTPUT_ROOT,
     dazel_run_file |-> DAZEL_RUN_FILE]

InitWorld ==
    /\ di \in {Instance(r) : r \in {"", DEFAULT_REMOTE_RPOSITORY}}
    /\ marker \in {NoFile} \cup {File(t, "other\n") : t \in InitTimes}
    /\ dockerfile \in {NoFile} \cup {File(t, "") : t \in InitTimes}
    /\ image \in BOOLEAN
    /\ container \in {[state |-> s, owner |-> 0] : s \in {"absent", "stopped", "running"}}
    /\ pc = [p \in Procs |-> "idle"]
    /\ rc = [p \in Procs |-> 0]
    /\ log = [p \in Procs |-> <<>>]
    /\ seen = [p \in Procs |-> NoSeen]
    /\ ret = [p \in Procs |-> 0]
    /\ status = [p \in Procs |-> 0]
    /\ marker0 = [p \in Procs |-> marker]
    /\ startFailed = [p \in Procs |-> [prev |-> FALSE, cur |-> FALSE]]
    /\ envChanged = [p \in Procs |-> [prev |-> FALSE, cur |-> FALSE]]
    /\ lost = [p \in Procs |-> FALSE]

CfgIdle ==
    /\ environ = <<>>
    /\ dazelrc = [path |-> [kind |-> "str", val |-> <<<<>>>>], config |-> <<>>]
    /\ hostfs = [bazel_out |-> <<>>, dirs |-> {}]
    /\ ctor = <<>>
    /\ inst = <<>>

ArgsIdle ==
    /\ argv = <<>>
    /\ command = <<>>
    /\ received = <<>>

Init == InitWorld /\ clock = 2 /\ active = {1} /\ CfgIdle /\ ArgsIdle

InitConc == InitWorld /\ clock = MaxTime - 1 /\ active = Procs /\ CfgIdle /\ ArgsIdle

Next ==
    \/ \E p \in active : Invoke(p)
    \/ \E p \in active : MainCheckMarker(p)
    \/ \E p \in active : MainIsRunning(p)
    \/ \E p \in active : MainCheckDockerfile(p)
    \/ \E p \in active : StartCheckDockerfile(p)
    \/ \E p \in active : _build(p)
    \/ \E p \in active : _pull(p)
    \/ \E p \in active : _image_exists(p)
    \/ \E p \in active : DockerStop(p)
    \/ \E p \in active : DockerRm(p)
    \/ \E p \in active : DockerRun(p)
    \/ \E p \in active : WriteMarker(p)
    \/ \E p \in active : send_command(p)
    \/ \E p \in active : Exit(p)
    \/ EnvTouchDockerfile
    \/ EnvContainerExit
    \/ EnvContainerStart

\* Two launchers and nobody else.
NextConc ==
    \/ \E p \in active : Invoke(p)
    \/ \E p \in active : MainCheckMarker(p)
    \/ \E p \in active : MainIsRunning(p)
    \/ \E p \in active : MainCheckDockerfile(p)
    \/ \E p \in active : StartCheckDockerfile(p)
    \/ \E p \in active : _build(p)
    \/ \E p \in active : _pull(p)
    \/ \E p \in active : _image_exists(p)
    \/ \E p \in active : DockerStop(p)
    \/ \E p \in active : DockerRm(p)
    \/ \E p \in active : DockerRun(p)
    \/ \E p \in active : WriteMarker(p)
    \/ \E p \in active : send_command(p)
    \/ \E p \in active : Exit(p)

Spec == Init /\ [][Next]_vars

SpecConc == InitConc /\ [][NextConc]_vars

-----------------------------------------------------------------------------
(* Properties of main() and start() *)

Last(q) == q[Len(q)]

Has(p, c) == \E i \in DOMAIN log[p] : log[p][i].cmd = c

Ended(p) == pc[p] \in {"exit", "exited"}

ProvisionCmds == {"start", "build", "pull", "images", "stop", "rm", "run", "marker"}

\* The staleness check of the current invocation has been decided.
Decided(p) == pc[p] \notin {"idle", "chk_marker", "chk_running", "chk_df"}

\* main() has taken the branch that calls di.start().
CallsStart(p) == pc[p] = "start" \/ Has(p, "start")

\* C1: once the staleness check is decided, start() has been called when the
\* marker file was absent, or present with the container not running, or the
\* Dockerfile newer than the marker; when the marker was present, the
\* container running and the Dockerfile older than the marker, the invocation
\* issued nothing but the `docker ps` of the check and then the exec, and the
\* marker file is as it was.
C1_Staleness ==
    \A p \in active : Decided(p) =>
        /\ ( \/ seen[p].marker = "no"
             \/ (seen[p].marker = "yes" /\ seen[p].running = "no")
             \/ seen[p].cmp = "newer" ) => CallsStart(p)
        /\ (seen[p].marker = "yes" /\ seen[p].running = "yes" /\ seen[p].cmp = "older") =>
              /\ \A i \in DOMAIN log[p] : log[p][i].cmd \notin ProvisionCmds
              /\ marker = marker0[p]
              /\ \/ pc[p] = "send" /\ Len(log[p]) = 1
                 \/ Ended(p) /\ Len(log[p]) = 2 /\ log[p][2].cmd = "exec"

\* C1 witness: an invocation found the marker present, the container running
\* and the Dockerfile older, and has forwarded the command.
C1_Witness ==
    \E p \in active : /\ pc[p] = "exited"
                      /\ seen[p].cmp = "older"
                      /\ Has(p, "exec")

\* C2: a build or a run that returns non-zero, and a pull that returns
\* non-zero with no local image, is the last thing the invocation does, and
\* main() returns the value that command returned.
C2_ShortCircuit ==
    \A p \in active : \A i \in DOMAIN log[p] :
        /\ (log[p][i].cmd \in {"build", "run"} /\ log[p][i].rc # 0) =>
              i = Len(log[p]) /\ Ended(p) /\ ret[p] = log[p][i].rc
        /\ (log[p][i].cmd = "pull" /\ log[p][i].rc # 0) =>
              \/ i = Len(log[p]) /\ pc[p] = "image_exists"
              \/ i < Len(log[p]) /\ log[p][i + 1].cmd = "images"
        /\ (log[p][i].cmd = "images" /\ log[p][i].rc # 0) =>
              /\ i = Len(log[p]) /\ Ended(p)
              /\ log[p][i - 1].cmd = "pull" /\ ret[p] = log[p][i - 1].rc

\* C2 witness: the process ended on a failed run, after a successful build.
C2_Witness ==
    \E p \in active : /\ pc[p] = "exited"
                      /\ Last(log[p]).cmd = "run" /\ Last(log[p]).rc # 0
                      /\ Has(p, "build")

\* main() returned (it did not raise).
Returned(p) == log[p] # <<>> /\ Last(log[p]).cmd # "start"

\* The exit code of the external command that ended the run.
LastExitCode(p) == ret[p] \div 256

\* C3: the exit status of the launcher is the exit code of the command that
\* ended the run.
C3_ExitCodeVerbatim ==
    \A p \in active : (pc[p] = "exited" /\ Returned(p)) => status[p] = LastExitCode(p)

\* The step after log[p][i] is the stop/rm/run command.
Continues(p, i) == IF i = Len(log[p]) THEN pc[p] = "stop" ELSE log[p][i + 1].cmd = "stop"

\* The image step of start() has acted.
ImageStepDone(p) == seen[p].build # "unread" /\ pc[p] \notin {"build", "pull"}

\* What C4 says when start() found a Dockerfile, and about a failed pull.
C4_BuildAndDegrade(p) ==
    /\ seen[p].build = "yes" =>
          /\ Has(p, "build") /\ ~Has(p, "pull") /\ ~Has(p, "images")
          /\ \A i \in DOMAIN log[p] : log[p][i].cmd = "build" =>
                IF log[p][i].rc = 0 THEN Continues(p, i)
                ELSE i = Len(log[p]) /\ Ended(p) /\ ret[p] = log[p][i].rc
    /\ \A i \in DOMAIN log[p] :
          /\ (log[p][i].cmd = "pull" /\ log[p][i].rc = 0) => Continues(p, i)
          /\ (log[p][i].cmd = "images" /\ i = Len(log[p])) => (log[p][i].rc = 0 <=> image)
          /\ (log[p][i].cmd = "images" /\ log[p][i].rc = 0) => Continues(p, i)
          /\ (log[p][i].cmd = "images" /\ log[p][i].rc # 0) =>
                i = Len(log[p]) /\ Ended(p) /\ ret[p] = log[p][i - 1].rc

\* C4 as stated: with a Dockerfile a build and no pull, the build's code
\* alone decides; without a Dockerfile a pull and no build; a failed pull
\* counts as success exactly when the image is there.
C4_Original ==
    \A p \in active : ImageStepDone(p) =>
        /\ C4_BuildAndDegrade(p)
        /\ seen[p].build = "no" => Has(p, "pull") /\ ~Has(p, "build")

\* C4 amended: as C4, but without a Dockerfile the pull is attempted only when
\* the repository name is not empty; with an empty repository name start()
\* raises and no command is issued.
C4_Amended ==
    \A p \in active : ImageStepDone(p) =>
        /\ C4_BuildAndDegrade(p)
        /\ (seen[p].build = "no" /\ di.repository # "") => Has(p, "pull") /\ ~Has(p, "build")
        /\ (seen[p].build = "no" /\ di.repository = "") =>
              /\ Last(log[p]).cmd = "start"
              /\ pc[p] \in {"raise", "exited"}
              /\ pc[p] = "exited" => status[p] = 1

\* C4 witness: a pull failed, the image was there, and start() went on to run
\* the container.
C4_Witness ==
    \E p \in active : \E i \in DOMAIN log[p] :
        /\ log[p][i].cmd = "pull" /\ log[p][i].rc # 0
        /\ i + 2 <= Len(log[p])
        /\ log[p][i + 1] = Event("images", 0)
        /\ Has(p, "run")

\* The image step succeeded before log[p][i].
ImageOkBefore(p, i) ==
    \E j \in 1 .. (i - 1) : /\ log[p][j].cmd \in {"build", "pull", "images"}
                            /\ log[p][j].rc = 0

\* start() returned non-zero.
StartReturnedNonZero(p) ==
    /\ log[p] # <<>>
    /\ Last(log[p]).cmd \in {"build", "images", "run"}
    /\ Last(log[p]).rc # 0

\* C5: the invocation writes the marker exactly when the image step and the
\* run succeeded; it writes '<instance_name>\n', after the run and before the
\* exec; when start() returns non-zero the marker file is as it was.
C5_MarkerCheckpoint ==
    \A p \in active :
        /\ Has(p, "marker") <=>
              (pc[p] # "write_marker" /\ \E i \in DOMAIN log[p] : log[p][i] = Event("run", 0))
        /\ \A i \in DOMAIN log[p] : log[p][i] = Event("run", 0) => ImageOkBefore(p, i)
        /\ \A i \in DOMAIN log[p] : log[p][i].cmd = "marker" =>
              /\ i > 1 /\ log[p][i - 1] = Event("run", 0)
              /\ \A k \in DOMAIN log[p] : log[p][k].cmd = "exec" => k > i
              /\ marker.exists /\ marker.content = di.instance_name \o "\n"
              /\ marker.ctime > marker0[p].ctime
        /\ StartReturnedNonZero(p) => (marker = marker0[p] /\ ~Has(p, "marker"))
        /\ ~Has(p, "start") => marker = marker0[p]

\* C5 witness: an invocation overwrote an older marker of another instance
\* name and then forwarded the command.
C5_Witness ==
    \E p \in active : /\ pc[p] = "exited"
                      /\ Has(p, "marker") /\ Has(p, "exec")
                      /\ marker0[p].exists /\ marker0[p].content # marker.content

\* Nobody else changed a file or the container since the previous invocation
\* of p began.
Undisturbed(p) == ~envChanged[p].prev /\ ~envChanged[p].cur

\* C9: after a start() that returned non-zero, and with nobody else changing
\* the files or the container since, the next staleness check does not skip
\* provisioning.
C9_FailedIsRetried ==
    \A p \in active :
        (startFailed[p].prev /\ Undisturbed(p) /\ Decided(p)) => CallsStart(p)

\* C9 witness: the invocation after a failed start() has decided to provision.
C9_Witness ==
    \E p \in active : /\ startFailed[p].prev /\ Undisturbed(p)
                      /\ pc[p] = "start"
                      /\ seen[p].marker = "yes" /\ seen[p].running = "no"

\* The steps of a process between the start of main() and its end.
Step(p) ==
    \/ MainCheckMarker(p)
    \/ MainIsRunning(p)
    \/ MainCheckDockerfile(p)
    \/ StartCheckDockerfile(p)
    \/ _build(p)
    \/ _pull(p)
    \/ _image_exists(p)
    \/ DockerStop(p)
    \/ DockerRm(p)
    \/ DockerRun(p)
    \/ WriteMarker(p)
    \/ send_command(p)
    \/ Exit(p)

-----------------------------------------------------------------------------
(* send_command(): the command line and the words /bin/sh makes of it.     *)
(* A string is a sequence of symbols: a space, a double quote, or a run of *)
(* characters that mean nothing to the shell.                              *)

SP == " "
DQ == "\""

ArgChars == {"a", SP, DQ}

Strings(n) == UNION {[1 .. k -> ArgChars] : k \in 0 .. n}

ArgLists == UNION {[1 .. k -> Strings(MaxArgLen)] : k \in 0 .. MaxArgs}

RECURSIVE Join(_, _)
\* sep.join(strs)
Join(sep, strs) ==
    IF strs = <<>> THEN <<>>
    ELSE IF Len(strs) = 1 THEN strs[1]
    ELSE strs[1] \o sep \o Join(sep, Tail(strs))

\* '"%s"' % '" "'.join(args)
Quoted(args) == <<DQ>> \o Join(<<DQ, SP, DQ>>, args) \o <<DQ>>

\* "docker exec -it %s %s --output_user_root=%s %s" % (...)
CommandLine(args) ==
    <<"docker", SP, "exec", SP, "-it", SP, di.instance_name, SP, di.command, SP,
      "--output_user_root=", di.bazel_user_output_root, SP>> \o Quoted(args)

RECURSIVE Words(_, _, _, _, _)
\* How sh -c splits a command line: a space outside double quotes ends a
\* word, a double quote opens or closes a quoted part and begins a word even
\* if the part is empty; an unclosed quote is a syntax error.
Words(line, i, quoted, word, words) ==
    LET begun == word # <<>>
        text == IF begun THEN word[1] ELSE <<>>
    IN
    IF i > Len(line)
    THEN IF quoted THEN [state |-> "syntax_error", words |-> <<>>]
         ELSE [state |-> "ran", words |-> IF begun THEN Append(words, text) ELSE words]
    ELSE IF line[i] = DQ THEN Words(line, i + 1, ~quoted, <<text>>, words)
    ELSE IF line[i] = SP /\ ~quoted
         THEN Words(line, i + 1, quoted, <<>>, IF begun THEN Append(words, text) ELSE words)
    ELSE Words(line, i + 1, quoted, <<Append(text, line[i])>>, words)

\* os.system(command): the words of the command line.
ShellWords(line) == Words(line, 1, FALSE, <<>>, <<>>)

NotSent == [state |-> "pending", words |-> <<>>]

\* return os.system(command), looked at from inside the container.
SendCommandLine ==
    /\ received = NotSent
    /\ command' = CommandLine(argv)
    /\ received' = ShellWords(command')
    /\ UNCHANGED <<di, worldVars, active, procVars, histVars, cfgVars, argv>>

WorldIdle ==
    /\ di = Instance(DEFAULT_REMOTE_RPOSITORY)
    /\ marker = NoFile
    /\ dockerfile = NoFile
    /\ image = FALSE
    /\ container = NoContainer
    /\ clock = 0
    /\ active = {}
    /\ pc = [p \in Procs |-> "idle"]
    /\ rc = [p \in Procs |-> 0]
    /\ log = [p \in Procs |-> <<>>]
    /\ seen = [p \in Procs |-> NoSeen]
    /\ ret = [p \in Procs |-> 0]
    /\ status = [p \in Procs |-> 0]
    /\ marker0 = [p \in Procs |-> NoFile]
    /\ startFailed = [p \in Procs |-> [prev |-> FALSE, cur |-> FALSE]]
    /\ envChanged = [p \in Procs |-> [prev |-> FALSE, cur |-> FALSE]]
    /\ lost = [p \in Procs |-> FALSE]

InitArgs ==
    /\ WorldIdle
    /\ CfgIdle
    /\ argv \in ArgLists
    /\ command = <<>>
    /\ received = NotSent

NextArgs == SendCommandLine

SpecArgs == InitArgs /\ [][NextArgs]_vars

\* The words the in-container command gets after --output_user_root=...
ArgsReceived == SubSeq(received.words, 7, Len(received.words))

\* C8: the in-container command receives, after the fixed flag, exactly the
\* arguments of the launcher: as many, in the same order, unchanged.
C8_PassThrough ==
    received # NotSent => (received.state = "ran" /\ ArgsReceived = argv)

-----------------------------------------------------------------------------
(* from_config() and the constructor.  A dict is a function whose domain   *)
(* is the set of its keys.  A value is a record of its Python type and its *)
(* content: the one string of a str (a sequence of symbols, as above), the *)
(* strings of a list, the digits of an int, nothing for None.              *)

Fields == {"instance_name", "image_name", "dockerfile", "repository", "directory",
           "command", "volumes", "bazel_user_output_root", "dazel_run_file"}

PyStr(symbols) == [kind |-> "str", val |-> <<symbols>>]
PyList(items) == [kind |-> "list", val |-> items]
PyInt(digits) == [kind |-> "int", val |-> <<<<digits>>>>]
PyNone == [kind |-> "none", val |-> <<>>]

\* The symbols of a str.
Str(v) == v.val[1]

\* The name config.get() looks each constructor argument up by.
KeyOf ==
    [instance_name |-> "DAZEL_INSTANCE_NAME",
     image_name |-> "DAZEL_IMAGE_NAME",
     dockerfile |-> "DAZEL_DOCKERFILE",
     repository |-> "DAZEL_REPOSITORY",
     directory |-> "DAZEL_DIRECTORY",
     command |-> "DAZEL_COMMAND",
     volumes |-> "DAZEL_VOLUMES",
     bazel_user_output_root |-> "DAZEL_BAZEL_USER_OUTPUT_ROOT",
     dazel_run_file |-> "DAZEL_RUN_FILE"]

\* The default config.get() falls back to.
DefaultOf ==
    [instance_name |-> PyStr(<<DEFAULT_INSTANCE_NAME>>),
     image_name |-> PyStr(<<DEFAULT_IMAGE_NAME>>),
     dockerfile |-> PyStr(<<DEFAULT_LOCAL_DOCKERFILE>>),
     repository |-> PyStr(<<DEFAULT_REMOTE_RPOSITORY>>),
     directory |-> PyStr(<<DEFAULT_DIRECTORY>>),
     command |-> PyStr(<<DEFAULT_COMMAND>>),
     volumes |-> PyList(DEFAULT_VOLUMES),
     bazel_user_output_root |-> PyStr(<<DEFAULT_BAZEL_USER_OUTPUT_ROOT>>),
     dazel_run_file |-> PyStr(<<DAZEL_RUN_FILE>>)]

ConfigKeys == {KeyOf[f] : f \in Fields}
EnvKeys == ConfigKeys \cup {"DAZEL_RC_FILE"}

\* The string "a:b, c:d".
VolumeString == PyStr(<<"a:b", ",", SP, "c:d">>)

\* What the environment can give a name: always a string.
EnvValues(k) ==
    IF k = "DAZEL_VOLUMES" THEN {VolumeString}
    ELSE IF k = "DAZEL_BAZEL_USER_OUTPUT_ROOT" THEN {PyStr(<<>>), PyStr(<<"env/root">>)}
    ELSE IF k = "DAZEL_RC_FILE" THEN {PyStr(<<"env/rcfile">>)}
    ELSE IF k = "DAZEL_DIRECTORY" THEN {PyStr(<<"env/dir">>)}
    ELSE {PyStr(<<"env value">>)}

\* What .dazelrc can assign to a name: any Python value.
FileValues(k) ==
    IF k = "DAZEL_VOLUMES"
    THEN {VolumeString, PyList(<<<<"e:f">>>>), PyList(<<>>), PyInt("5"), PyInt("0"), PyNone}
    ELSE IF k = "DAZEL_DIRECTORY" THEN {PyStr(<<"file/dir">>)}
    ELSE {PyStr(<<"file value">>)}

KeySets(keys) == {S \in SUBSET keys : Cardinality(S) <= MaxSet}

EnvDicts == UNION {{d \in [S -> UNION {EnvValues(k) : k \in S}] :
                       \A k \in S : d[k] \in EnvValues(k)} : S \in KeySets(EnvKeys)}

FileDicts == UNION {{d \in [S -> UNION {FileValues(k) : k \in S}] :
                       \A k \in S : d[k] \in FileValues(k)} : S \in KeySets(ConfigKeys)}

\* dict.get(k, default)
Get(d, k, default) == IF k \in DOMAIN d THEN d[k] ELSE default

\* Mutant: the file wins over the environment.
UpdateMutant(d, e) ==
    [k \in DOMAIN d \cup DOMAIN e |-> IF k \in DOMAIN d THEN d[k] ELSE e[k]]

\* d.update(e)
Update(d, e) ==
    [k \in DOMAIN d \cup DOMAIN e |-> IF k \in DOMAIN e THEN e[k] ELSE d[k]]

\* os.path.join(directory, DAZEL_RC_FILE)
PathJoin(a, b) == PyStr(Str(a) \o <<"/">> \o Str(b))

\* The path _config_from_file() reads.
dazelrc_path ==
    Get(environ, "DAZEL_RC_FILE",
        PathJoin(Get(environ, "DAZEL_DIRECTORY", PyStr(<<DEFAULT_DIRECTORY>>)),
                 PyStr(<<DAZEL_RC_FILE>>)))

\* cls._config_from_file()
_config_from_file == IF dazelrc.path # dazelrc_path THEN <<>> ELSE dazelrc.config

\* cls._config_from_environment(): every DAZEL_ variable
_config_from_environment == environ

\* The arguments from_config() calls the constructor with.
ConstructorArgs ==
    LET config == Update(_config_from_file, _config_from_environment)
    IN  [f \in Fields |-> Get(config, KeyOf[f], DefaultOf[f])]

RECURSIVE Split(_, _, _)
\* s.split(sep), the piece in progress being cur
Split(symbols, sep, cur) ==
    IF symbols = <<>> THEN <<cur>>
    ELSE IF Head(symbols) = sep THEN <<cur>> \o Split(Tail(symbols), sep, <<>>)
    ELSE Split(Tail(symbols), sep, Append(cur, Head(symbols)))

RECURSIVE Strip(_)
\* s.strip()
Strip(symbols) ==
    IF symbols = <<>> THEN <<>>
    ELSE IF Head(symbols) = SP THEN Strip(Tail(symbols))
    ELSE IF symbols[Len(symbols)] = SP THEN Strip(SubSeq(symbols, 1, Len(symbols) - 1))
    ELSE symbols

\* [v.strip() for v in volumes.split(",")]
SplitVolumes(symbols) ==
    LET parts == Split(symbols, ",", <<>>)
    IN  [i \in DOMAIN parts |-> Strip(parts[i])]

\* bool(v)
Truthy(v) ==
    IF v.kind = "none" THEN FALSE
    ELSE IF v.kind = "int" THEN v # PyInt("0")
    ELSE IF v.kind = "str" THEN Str(v) # <<>>
    ELSE v.val # <<>>

\* os.path.realpath(path)
RealPath(path) == <<"/real/">> \o path

\* '-v "%s"' % '" -v "'.join(volumes)
MountString(volumes) ==
    <<"-v", SP, DQ>> \o Join(<<DQ, SP, "-v", SP, DQ>>, volumes) \o <<DQ>>

\* real_bazelout is a sequence of path segments; these are the ones that
\* begin with _bazel.
BazelSegments == {"_bazel_user"}

HasBazel(path) == \E i \in DOMAIN path : path[i] \in BazelSegments

\* first_part + "/_bazel" + parts[1].split("/")[0]: the path up to and
\* including the first segment that begins with _bazel.
BazelRoot(path) ==
    LET i == CHOOSE i \in DOMAIN path :
                 /\ path[i] \in BazelSegments
                 /\ \A j \in 1 .. (i - 1) : path[j] \notin BazelSegments
    IN  SubSeq(path, 1, i)

RECURSIVE PathString(_)
\* The path as a string.
PathString(path) ==
    IF path = <<>> THEN <<>> ELSE <<"/", Head(path)>> \o PathString(Tail(path))

Pending == [state |-> "pending", exc |-> "", volumes |-> <<>>,
            bazel_user_output_root |-> <<>>, made |-> FALSE]

Raised(e) == [state |-> "raised", exc |-> e, volumes |-> <<>>,
              bazel_user_output_root |-> <<>>, made |-> FALSE]

VolumesError ==
    "RuntimeError: DAZEL_VOLUMES must be comma-separated string or python iterable of strings"

\* __init__() and self._add_volumes(volumes): the instance, or the exception.
_add_volumes(args) ==
    LET v == args.volumes
        real_directory == RealPath(Str(args.directory))
        \* bazel-out is a link into bazel's cache, or it is not there
        real_bazelout == IF hostfs.bazel_out = <<>> THEN real_directory
                         ELSE PathString(hostfs.bazel_out)
        root == IF Str(args.bazel_user_output_root) = <<>> /\ HasBazel(hostfs.bazel_out)
                THEN PathString(BazelRoot(hostfs.bazel_out))
                ELSE Str(args.bazel_user_output_root)
        mounts(list) == list \o <<real_directory \o <<":">> \o real_directory,
                                  real_bazelout \o <<":">> \o real_bazelout>>
        built(list) ==
            IF root \notin hostfs.dirs /\ root = <<>>
            THEN [Raised("OSError") EXCEPT !.volumes = MountString(mounts(list))]
            ELSE [state |-> "ok", exc |-> "", volumes |-> MountString(mounts(list)),
                  bazel_user_output_root |-> root, made |-> root \notin hostfs.dirs]
    IN
    IF v.kind = "str" THEN built(SplitVolumes(Str(v)))
    ELSE IF Truthy(v)
         \* types.Iterable does not exist: evaluating the test raises
         THEN Raised("AttributeError: 'module' object has no attribute 'Iterable'")
    ELSE IF v.kind # "list"
         \* volumes += [...] on an int or None
         THEN Raised("TypeError")
    ELSE built(v.val)

\* DockerInstance.from_config()
from_config ==
    /\ inst = Pending
    /\ ctor' = ConstructorArgs
    /\ inst' = _add_volumes(ctor')
    /\ UNCHANGED <<di, worldVars, active, procVars, histVars, argVars,
                   environ, dazelrc, hostfs>>

\* Where a .dazelrc can be.
NoRcFile == PyStr(<<>>)

RcPaths == {NoRcFile,
            PathJoin(PyStr(<<DEFAULT_DIRECTORY>>), PyStr(<<DAZEL_RC_FILE>>)),
            PathJoin(PyStr(<<"env/dir">>), PyStr(<<DAZEL_RC_FILE>>)),
            PyStr(<<"env/rcfile">>)}

InitCfg ==
    /\ WorldIdle
    /\ ArgsIdle
    /\ environ \in EnvDicts
    /\ dazelrc \in {[path |-> NoRcFile, config |-> <<>>]} \cup
                   {[path |-> q, config |-> c] : q \in RcPaths \ {NoRcFile}, c \in FileDicts}
    /\ hostfs \in {[bazel_out |-> b, dirs |-> d] :
                      b \in {<<>>, <<"cache", "_bazel_user", "hash", "execroot", "ws">>},
                      d \in {{}, {<<DEFAULT_BAZEL_USER_OUTPUT_ROOT>>, <<"env/root">>,
                                  <<"file value">>, <<"/", "cache", "/", "_bazel_user">>}}}
    /\ ctor = <<>>
    /\ inst = Pending

NextCfg == from_config

SpecCfg == InitCfg /\ [][NextCfg]_vars

\* .dazelrc is where _config_from_file() looks for it.
FileFound == dazelrc.path = dazelrc_path

\* C6: every constructor argument is the environment variable's value if it
\* is set, else the value .dazelrc assigns if the file is there and assigns
\* one, else the default, each name by itself; a missing .dazelrc is no error.
C6_Precedence ==
    inst # Pending =>
        /\ \A f \in Fields :
              ctor[f] = IF KeyOf[f] \in DOMAIN environ THEN environ[KeyOf[f]]
                        ELSE IF FileFound /\ KeyOf[f] \in DOMAIN dazelrc.config
                             THEN dazelrc.config[KeyOf[f]]
                        ELSE DefaultOf[f]
        /\ (~FileFound /\ "DAZEL_BAZEL_USER_OUTPUT_ROOT" \notin DOMAIN environ) =>
              inst.state = "ok"

\* C6 witness: .dazelrc was read; one name is set in both the environment and
\* the file, another only in the file, and the instance was constructed.
C6_Witness ==
    /\ inst.state = "ok"
    /\ FileFound
    /\ \E k \in ConfigKeys : k \in DOMAIN environ /\ k \in DOMAIN dazelrc.config
    /\ \E k \in ConfigKeys : k \notin DOMAIN environ /\ k \in DOMAIN dazelrc.config

\* C7: a volumes value that is neither a string nor an iterable makes the
\* constructor fail with the DAZEL_VOLUMES configuration error, with no mount
\* string built and no directory created.
C7_VolumesTypeCheck ==
    (inst # Pending /\ ctor.volumes.kind \in {"int", "none"}) =>
        /\ inst.state = "raised"
        /\ inst.exc = VolumesError
        /\ inst.volumes = <<>>
        /\ ~inst.made

====
